---- MODULE Spec2Model ----
(***************************************************************************)
(* Model of the policy-server evaluation dispatch core:                    *)
(*   - src/src/api.rs     the HTTP handler `validation`                    *)
(*   - src/src/worker.rs  `Worker::new`, `Worker::run` and the response    *)
(*                        shaper `validation_response_with_constraints`    *)
(* Option<T> values are sequences: <<>> is None, <<x>> is Some(x).         *)
(***************************************************************************)
EXTENDS Naturals, Sequences, FiniteSets, TLC

\* ------------------------------------------------------------------ bounds
\* Number of HTTP validation requests the front-end receives.
MaxReq == 2
\* Number of workers of the pool.
NWorkers == 2
\* Capacity of the bounded queue between the HTTP layer and the workers.
QueueCap == 1

Reqs == 1..MaxReq
Workers == 1..NWorkers

\* ----------------------------------------------------------- Option<T>
None == <<>>
Some(x) == <<x>>
is_some(o) == o # <<>>
unwrap(o) == o[1]
unwrap_or(o, d) == IF o = <<>> THEN d ELSE o[1]

\* ------------------------------------------------------- program constants
\* warp::http::StatusCode values used by the handler and the worker.
BAD_REQUEST == 400
NOT_FOUND == 404
INTERNAL_SERVER_ERROR == 500
OK == 200

Protect == "Protect"
Monitor == "Monitor"
PolicyModes == {Protect, Monitor}

\* ------------------------------------------------------------ input sets
\* Policy ids of the static configuration, and the ids requests may name.
PolicyIds == {"psp-caps"}
RequestPolicyIds == PolicyIds \cup {"unknown"}
Namespaces == {"kube-system", "dev"}
AcceptNamespaces == {None, Some("kube-system")}
JsonPatchType == "application/json-patch+json"

\* settings::Policy, the fields Worker::new reads.
Policies ==
    [policy_mode : PolicyModes, allowed_to_mutate : {None, Some(TRUE), Some(FALSE)}]

\* AdmissionResponseStatus values a sandbox reports in the dispatch model.
RawStatuses ==
    { None, Some([message |-> Some("bad"), code |-> Some(INTERNAL_SERVER_ERROR)]) }

\* The request uid of the r-th HTTP request.
UidOf(r) == "U" \o ToString(r)

\* AdmissionResponse values PolicyEvaluator::validate may return for a request
\* with uid `uid` (the sandbox echoes the uid of the request it was given).
\* Here a patch comes with its patch_type; ShapeRawResponses draws the two
\* fields independently for the shaper alone.
RawResponses(uid) ==
    { [uid |-> uid, allowed |-> a, patch |-> p[1], patch_type |-> p[2], status |-> s] :
        a \in BOOLEAN,
        p \in { <<None, None>>, <<Some("P"), Some(JsonPatchType)>> },
        s \in RawStatuses }

\* admission_review.request of the r-th HTTP request: missing, or an
\* AdmissionRequest; ser_err is the outcome of serde_json::to_value on it.
AdmissionRequests(r) ==
    { [uid |-> UidOf(r), namespace |-> ns, ser_err |-> e] :
        ns \in {None} \cup { Some(n) : n \in Namespaces },
        e \in {None, Some("Error(\"key must be a string\")")} }
AdmissionReviewRequests(r) == {None} \cup { Some(ar) : ar \in AdmissionRequests(r) }

\* ------------------------------------------------------- response shaper
DisallowedMutationMessage(policy_id) ==
    "Request rejected by policy " \o policy_id
        \o ". The policy attempted to mutate the request, but it is currently configured to not allow mutations."

\* Mutant: Monitor mode forgets to clear the status.
vrwc_monitor_keeps_status(policy_id, policy_mode, allowed_to_mutate, validation_response) ==
    IF policy_mode = Protect
    THEN IF is_some(validation_response.patch) /\ ~allowed_to_mutate
         THEN [validation_response EXCEPT
                 !.allowed = FALSE,
                 !.status = Some([message |-> Some(DisallowedMutationMessage(policy_id)),
                                  code |-> None]),
                 !.patch = None,
                 !.patch_type = None]
         ELSE validation_response
    ELSE [validation_response EXCEPT
            !.allowed = TRUE,
            !.patch_type = None,
            !.patch = None]

\* Mutant: the disallowed-mutation rejection keeps the sandbox's status code.
vrwc_reject_keeps_code(policy_id, policy_mode, allowed_to_mutate, validation_response) ==
    IF policy_mode = Protect
    THEN IF is_some(validation_response.patch) /\ ~allowed_to_mutate
         THEN [validation_response EXCEPT
                 !.allowed = FALSE,
                 !.status = Some([message |-> Some(DisallowedMutationMessage(policy_id)),
                                  code |-> IF is_some(validation_response.status)
                                           THEN unwrap(validation_response.status).code
                                           ELSE None]),
                 !.patch = None,
                 !.patch_type = None]
         ELSE validation_response
    ELSE [validation_response EXCEPT
            !.allowed = TRUE,
            !.patch_type = None,
            !.patch = None,
            !.status = None]

\* Mutant: Protect mode rejects every patch, whatever allowed_to_mutate says.
vrwc_ignores_allowed_to_mutate(policy_id, policy_mode, allowed_to_mutate, validation_response) ==
    IF policy_mode = Protect
    THEN IF is_some(validation_response.patch)
         THEN [validation_response EXCEPT
                 !.allowed = FALSE,
                 !.status = Some([message |-> Some(DisallowedMutationMessage(policy_id)),
                                  code |-> None]),
                 !.patch = None,
                 !.patch_type = None]
         ELSE validation_response
    ELSE [validation_response EXCEPT
            !.allowed = TRUE,
            !.patch_type = None,
            !.patch = None,
            !.status = None]

\* Worker::validation_response_with_constraints
\* A Monitor projection that lets the patch through.
vrwc_monitor_keeps_patch(policy_id, policy_mode, allowed_to_mutate, validation_response) ==
    IF policy_mode = Protect
    THEN IF is_some(validation_response.patch) /\ ~allowed_to_mutate
         THEN [validation_response EXCEPT
                 !.allowed = FALSE,
                 !.status = Some([message |-> Some(DisallowedMutationMessage(policy_id)),
                                  code |-> None]),
                 !.patch = None,
                 !.patch_type = None]
         ELSE validation_response
    ELSE [validation_response EXCEPT
            !.allowed = TRUE,
            !.status = None]

validation_response_with_constraints(policy_id, policy_mode, allowed_to_mutate, validation_response) ==
    IF policy_mode = Protect
    THEN IF is_some(validation_response.patch) /\ ~allowed_to_mutate
         THEN [validation_response EXCEPT
                 !.allowed = FALSE,
                 !.status = Some([message |-> Some(DisallowedMutationMessage(policy_id)),
                                  code |-> None]),
                 !.patch = None,
                 !.patch_type = None]
         ELSE validation_response
    ELSE [validation_response EXCEPT
            !.allowed = TRUE,
            !.patch_type = None,
            !.patch = None,
            !.status = None]

\* Mutant: the override is never applied.
namespace_override_never(always_accept_admission_reviews_on_namespace, req_namespace, validation_response) ==
    validation_response

\* Mutant: the override fires whenever a namespace is configured.
namespace_override_any(always_accept_admission_reviews_on_namespace, req_namespace, validation_response) ==
    IF is_some(always_accept_admission_reviews_on_namespace)
    THEN [validation_response EXCEPT !.allowed = TRUE]
    ELSE validation_response

\* Mutant: a firing override answers with a bare acceptance.
namespace_override_clean(always_accept_admission_reviews_on_namespace, req_namespace, validation_response) ==
    IF is_some(always_accept_admission_reviews_on_namespace)
    THEN IF req_namespace = Some(unwrap(always_accept_admission_reviews_on_namespace))
         THEN [validation_response EXCEPT
                 !.allowed = TRUE, !.patch = None, !.patch_type = None, !.status = None]
         ELSE validation_response
    ELSE validation_response

\* Worker::run, the always_accept_admission_reviews_on_namespace override
namespace_override(always_accept_admission_reviews_on_namespace, req_namespace, validation_response) ==
    IF is_some(always_accept_admission_reviews_on_namespace)
    THEN IF req_namespace = Some(unwrap(always_accept_admission_reviews_on_namespace))
         THEN [validation_response EXCEPT !.allowed = TRUE]
         ELSE validation_response
    ELSE validation_response

\* Mutant: the synthetic rejection is an internal server error.
reject_internal_server_error(uid, message, code) ==
    [uid |-> uid, allowed |-> FALSE, patch |-> None, patch_type |-> None,
     status |-> Some([message |-> Some(message), code |-> Some(INTERNAL_SERVER_ERROR)])]

\* AdmissionResponse::reject(uid, message, code) as Worker::run calls it
reject(uid, message, code) ==
    [uid |-> uid, allowed |-> FALSE, patch |-> None, patch_type |-> None,
     status |-> Some([message |-> Some(message), code |-> Some(code)])]

SerializeErrorMessage(e) == "Failed to serialize AdmissionReview: " \o e

\* Worker::new on success: one PolicyEvaluatorWithSettings per configured policy
WorkerNew(policies, always_accept_admission_reviews_on_namespace) ==
    [id \in DOMAIN policies |->
        [policy_mode |-> policies[id].policy_mode,
         allowed_to_mutate |-> unwrap_or(policies[id].allowed_to_mutate, FALSE),
         always_accept_admission_reviews_on_namespace |->
             always_accept_admission_reviews_on_namespace]]

\* ------------------------------------------------ worker.rs: Worker::new
\* Policy ids of a configuration handed to Worker::new.
NewPolicyIds == {"psp-caps", "psp-apparmor"}
\* Debug renderings ({:?}) of the errors of build_policy_evaluator and of
\* wasmtime::Engine::new.
BuildErrors == {"cannot find policy module"}
EngineErrors == {"invalid wasmtime config"}

BuildErrorMessage(id, e) == "[" \o id \o "] could not create PolicyEvaluator: " \o e
EngineErrorMessage(e) == "Cannot create wasmtime::Engine: " \o e

\* The ids whose evaluator could not be built.
Failing(build_errors) == { id \in DOMAIN build_errors : is_some(build_errors[id]) }

\* A construction that gives up at the first failing policy.
Worker_new_first_error(policies, engine_error, build_errors, always_accept_admission_reviews_on_namespace) ==
    IF is_some(engine_error)
    THEN [ok |-> FALSE, evaluators |-> <<>>,
          errors |-> [id \in {"*"} |-> EngineErrorMessage(unwrap(engine_error))]]
    ELSE IF Failing(build_errors) # {}
    THEN [ok |-> FALSE, evaluators |-> <<>>,
          errors |-> [id \in {CHOOSE f \in Failing(build_errors) : TRUE} |->
                         BuildErrorMessage(id, unwrap(build_errors[id]))]]
    ELSE [ok |-> TRUE, errors |-> <<>>,
          evaluators |-> WorkerNew(policies, always_accept_admission_reviews_on_namespace)]

\* Worker::new, lines 53-113.  engine_error is the outcome of
\* wasmtime::Engine::new (None for Ok) and build_errors[id] the outcome of
\* build_policy_evaluator for each configured id (None for Ok).  The result
\* is Ok(Worker) with its evaluators, or Err(PolicyErrors) with its map.
Worker_new(policies, engine_error, build_errors, always_accept_admission_reviews_on_namespace) ==
    IF is_some(engine_error)
    THEN [ok |-> FALSE, evaluators |-> <<>>,
          errors |-> [id \in {"*"} |-> EngineErrorMessage(unwrap(engine_error))]]
    ELSE IF Failing(build_errors) # {}
    THEN [ok |-> FALSE, evaluators |-> <<>>,
          errors |-> [id \in Failing(build_errors) |->
                         BuildErrorMessage(id, unwrap(build_errors[id]))]]
    ELSE [ok |-> TRUE, errors |-> <<>>,
          evaluators |-> WorkerNew(policies, always_accept_admission_reviews_on_namespace)]

\* ----------------------------------------------------------------- state
VARIABLES
    evaluators,   \* Worker.evaluators, per worker: policy id -> settings
    queue,        \* the bounded queue of EvalRequests (request ids), FIFO
    hpc,          \* position of each HTTP handler (`validation`)
    areq,         \* policy_id and admission_review.request of each HTTP request
    resp_chan,    \* the one-shot reply channel of each request
    http,         \* the HTTP reply of each handler
    wpc,          \* position of each worker in Worker::run
    cur,          \* the EvalRequest a worker holds (0: none)
    wraw,         \* vanilla_validation_response held by a worker
    sent,         \* per request, the values passed to resp_chan.send
    dequeued,     \* per request, how many times blocking_recv returned it
    validates,    \* per request, how many times an evaluator's validate ran
    metrics,      \* per request, the PolicyEvaluation records added
    enqueued,     \* per request, whether tx.send put it on the queue
    receiver_dropped, \* per request, "receiver dropped" error log lines
    shape,        \* inputs and outputs of the response shaper (SpecShape)
    built,        \* inputs and result of Worker::new (SpecNew)
    tx,           \* the queue's Sender held by the HTTP server: "open" or "dropped"
    debug_enabled \* whether the tracing level lets debug! events through

vars == <<evaluators, queue, hpc, areq, resp_chan, http, wpc, cur, wraw,
          sent, dequeued, validates, metrics, enqueued, receiver_dropped, shape, built,
          tx, debug_enabled>>

NoAreq == [policy_id |-> "", request |-> None]
NoHttp == [code |-> 0, message |-> "", response |-> None]
\* oneshot::channel(): tx is the Sender half, rx the Receiver half
NoChan == [tx |-> "none", rx |-> "none", val |-> None]

ShapeIdle == [phase |-> "idle"]
BuiltIdle == [phase |-> "idle"]

\* The state right after the pool was built with workers holding `evs`.
Started(evs) ==
    /\ evaluators = [w \in Workers |-> evs]
    /\ queue = <<>>
    /\ hpc = [r \in Reqs |-> "idle"]
    /\ areq = [r \in Reqs |-> NoAreq]
    /\ resp_chan = [r \in Reqs |-> NoChan]
    /\ http = [r \in Reqs |-> NoHttp]
    /\ wpc = [w \in Workers |-> "recv"]
    /\ cur = [w \in Workers |-> 0]
    /\ wraw = [w \in Workers |-> None]
    /\ sent = [r \in Reqs |-> <<>>]
    /\ dequeued = [r \in Reqs |-> 0]
    /\ validates = [r \in Reqs |-> 0]
    /\ metrics = [r \in Reqs |-> <<>>]
    /\ enqueued = [r \in Reqs |-> FALSE]
    /\ receiver_dropped = [r \in Reqs |-> 0]
    /\ tx = "open"

Init ==
    /\ \E policies \in [PolicyIds -> Policies], ns \in AcceptNamespaces :
          Started(WorkerNew(policies, ns))
    /\ shape = ShapeIdle
    /\ built = BuiltIdle
    /\ debug_enabled \in BOOLEAN


\* ------------------------------------------------------- channel helpers
\* tokio::sync::oneshot::Sender::send: consumes the Sender; the value is
\* delivered unless the Receiver half was dropped, and then send returns Err.
oneshot_send(ch, v) ==
    IF ch.rx = "open"
    THEN [ch EXCEPT !.tx = "sent", !.val = Some(v)]
    ELSE [ch EXCEPT !.tx = "sent"]
send_is_err(ch) == ch.rx # "open"

\* The receiving end of the queue is gone once no worker holds it.
ReceiversGone(pcs) == \A w \in Workers : pcs[w] \in {"dead", "stopped", "exited"}

\* Dropping EvalRequests drops their resp_chan Sender halves.
DropSenders(chans, rs) ==
    [r \in Reqs |-> IF r \in rs /\ chans[r].tx = "open"
                    THEN [chans[r] EXCEPT !.tx = "dropped"]
                    ELSE chans[r]]

Range(q) == { q[i] : i \in 1..Len(q) }

ServerError(code, message) == [code |-> code, message |-> message, response |-> None]

\* The pool is stopped: an idle worker leaves its loop and its end of the
\* queue is dropped; with the last receiver the queued EvalRequests (and
\* their resp_chan Sender halves) are dropped too.
WorkerStop(w) ==
    LET pcs == [wpc EXCEPT ![w] = "stopped"] IN
    /\ wpc[w] = "recv"
    /\ wpc' = pcs
    /\ IF ReceiversGone(pcs)
       THEN /\ queue' = <<>>
            /\ resp_chan' = DropSenders(resp_chan, Range(queue))
       ELSE UNCHANGED <<queue, resp_chan>>
    /\ UNCHANGED <<evaluators, hpc, areq, http, cur, wraw, sent, dequeued, validates,
                   metrics, enqueued, receiver_dropped, shape, built, tx, debug_enabled>>

\* A reply mapping in which a closed reply sink reads as an unknown policy.
validation_reply_err_as_none(res) ==
    IF is_some(res) /\ is_some(unwrap(res))
    THEN [code |-> OK, message |-> "", response |-> Some(unwrap(unwrap(res)))]
    ELSE ServerError(NOT_FOUND, "requested policy not known")

\* A handler that takes the request for granted: no early 400.
HandlerStart_no_check(r) ==
    /\ hpc[r] = "idle"
    /\ tx = "open"
    /\ \E policy_id \in RequestPolicyIds, request \in AdmissionReviewRequests(r) :
          /\ areq' = [areq EXCEPT ![r] = [policy_id |-> policy_id, request |-> request]]
          /\ resp_chan' = [resp_chan EXCEPT ![r] =
                [tx |-> "open", rx |-> "open", val |-> None]]
          /\ hpc' = [hpc EXCEPT ![r] = "send"]
          /\ UNCHANGED http
    /\ UNCHANGED <<evaluators, queue, wpc, cur, wraw, sent, dequeued, validates,
                   metrics, enqueued, receiver_dropped, shape, built, tx, debug_enabled>>

\* ------------------------------------------------ api.rs: validation
\* debug!(admission_review = %serde_json::to_string(&ar).unwrap().as_str()),
\* line 83: the argument is evaluated only when debug events are enabled,
\* and the unwrap then panics on a request that does not serialize.
debug_panics(request) == debug_enabled /\ is_some(request.ser_err)

\* A POST /validate/{policy_id} arrives: lines 81-105 of `validation`.
\* A missing `request` is answered 400 at once; a request that the debug
\* event cannot serialize makes the handler panic (no reply is written);
\* otherwise the one-shot channel and the EvalRequest are built and the
\* handler goes on to send.
HandlerStart(r) ==
    /\ hpc[r] = "idle"
    /\ tx = "open"
    /\ \E policy_id \in RequestPolicyIds, request \in AdmissionReviewRequests(r) :
          /\ areq' = [areq EXCEPT ![r] = [policy_id |-> policy_id, request |-> request]]
          /\ IF request = None
             THEN /\ http' = [http EXCEPT ![r] =
                        ServerError(BAD_REQUEST,
                            "No Request object defined inside AdmissionReview object")]
                  /\ hpc' = [hpc EXCEPT ![r] = "done"]
                  /\ UNCHANGED resp_chan
             ELSE IF debug_panics(unwrap(request))
             THEN /\ hpc' = [hpc EXCEPT ![r] = "panicked"]
                  /\ UNCHANGED <<http, resp_chan>>
             ELSE /\ resp_chan' = [resp_chan EXCEPT ![r] =
                        [tx |-> "open", rx |-> "open", val |-> None]]
                  /\ hpc' = [hpc EXCEPT ![r] = "send"]
                  /\ UNCHANGED http
    /\ UNCHANGED <<evaluators, queue, wpc, cur, wraw, sent, dequeued, validates,
                   metrics, enqueued, receiver_dropped, shape, built, tx, debug_enabled>>

\* A send on an unbounded channel: it never waits for capacity.
HandlerSend_unbounded(r) ==
    /\ hpc[r] = "send"
    /\ IF ReceiversGone(wpc)
       THEN /\ http' = [http EXCEPT ![r] =
                  ServerError(INTERNAL_SERVER_ERROR,
                      "error while sending request from API to Worker pool")]
            /\ hpc' = [hpc EXCEPT ![r] = "done"]
            /\ resp_chan' = [resp_chan EXCEPT ![r].tx = "dropped", ![r].rx = "dropped"]
            /\ UNCHANGED <<queue, enqueued>>
       ELSE /\ queue' = Append(queue, r)
            /\ enqueued' = [enqueued EXCEPT ![r] = TRUE]
            /\ hpc' = [hpc EXCEPT ![r] = "await"]
            /\ UNCHANGED <<http, resp_chan>>
    /\ UNCHANGED <<evaluators, areq, wpc, cur, wraw, sent, dequeued, validates,
                   metrics, receiver_dropped, shape, built, tx, debug_enabled>>

\* A send whose error is ignored: the handler goes on to wait for a reply.
HandlerSend_ignores_error(r) ==
    /\ hpc[r] = "send"
    /\ IF ReceiversGone(wpc)
       THEN /\ hpc' = [hpc EXCEPT ![r] = "await"]
            /\ UNCHANGED <<http, resp_chan, queue, enqueued>>
       ELSE /\ Len(queue) < QueueCap
            /\ queue' = Append(queue, r)
            /\ enqueued' = [enqueued EXCEPT ![r] = TRUE]
            /\ hpc' = [hpc EXCEPT ![r] = "await"]
            /\ UNCHANGED <<http, resp_chan>>
    /\ UNCHANGED <<evaluators, areq, wpc, cur, wraw, sent, dequeued, validates,
                   metrics, receiver_dropped, shape, built, tx, debug_enabled>>

\* tx.send(eval_req).await, lines 106-115: fails when the receiving end is
\* gone, waits while the queue is full, otherwise enqueues.
HandlerSend(r) ==
    /\ hpc[r] = "send"
    /\ IF ReceiversGone(wpc)
       THEN /\ http' = [http EXCEPT ![r] =
                  ServerError(INTERNAL_SERVER_ERROR,
                      "error while sending request from API to Worker pool")]
            /\ hpc' = [hpc EXCEPT ![r] = "done"]
            /\ resp_chan' = [resp_chan EXCEPT ![r].tx = "dropped", ![r].rx = "dropped"]
            /\ UNCHANGED <<queue, enqueued>>
       ELSE /\ Len(queue) < QueueCap
            /\ queue' = Append(queue, r)
            /\ enqueued' = [enqueued EXCEPT ![r] = TRUE]
            /\ hpc' = [hpc EXCEPT ![r] = "await"]
            /\ UNCHANGED <<http, resp_chan>>
    /\ UNCHANGED <<evaluators, areq, wpc, cur, wraw, sent, dequeued, validates,
                   metrics, receiver_dropped, shape, built, tx, debug_enabled>>

\* The match on the result of resp_rx.await, lines 118-155: res is
\* Some(r) for Ok(r) and None for Err(RecvError).
validation_reply(res) ==
    IF is_some(res)
    THEN IF is_some(unwrap(res))
         THEN [code |-> OK, message |-> "", response |-> Some(unwrap(unwrap(res)))]
         ELSE ServerError(NOT_FOUND, "requested policy not known")
    ELSE ServerError(INTERNAL_SERVER_ERROR, "broken channel")

\* resp_rx.await (line 116) completes once the worker sent a value or the
\* Sender half was dropped; the handler then builds its HTTP reply.
HandlerAwait(r) ==
    /\ hpc[r] = "await"
    /\ resp_chan[r].tx \in {"sent", "dropped"}
    /\ http' = [http EXCEPT ![r] =
          validation_reply(IF resp_chan[r].tx = "sent" THEN resp_chan[r].val ELSE None)]
    /\ hpc' = [hpc EXCEPT ![r] = "done"]
    /\ resp_chan' = [resp_chan EXCEPT ![r].rx = "dropped"]
    /\ UNCHANGED <<evaluators, queue, areq, wpc, cur, wraw, sent, dequeued,
                   validates, metrics, enqueued, receiver_dropped, shape, built, tx, debug_enabled>>

\* The client disconnects while the handler is suspended at one of its two
\* await points (lines 106 and 116): the future is dropped, and with it the
\* Receiver half (and, before the send completed, the EvalRequest).
HandlerCancel(r) ==
    /\ hpc[r] \in {"send", "await"}
    /\ hpc' = [hpc EXCEPT ![r] = "cancelled"]
    /\ resp_chan' = [resp_chan EXCEPT
          ![r].rx = "dropped",
          ![r].tx = IF hpc[r] = "send" THEN "dropped" ELSE @]
    /\ UNCHANGED <<evaluators, queue, areq, http, wpc, cur, wraw, sent, dequeued,
                   validates, metrics, enqueued, receiver_dropped, shape, built, tx, debug_enabled>>

\* ------------------------------------------------ worker.rs: Worker::run
\* Mutant: the dequeue reads the head of the queue without removing it.
WorkerRecv_peek(w) ==
    /\ wpc[w] = "recv"
    /\ queue # <<>>
    /\ cur' = [cur EXCEPT ![w] = Head(queue)]
    /\ dequeued' = [dequeued EXCEPT ![Head(queue)] = @ + 1]
    /\ wpc' = [wpc EXCEPT ![w] = "eval"]
    /\ UNCHANGED <<evaluators, queue, hpc, areq, resp_chan, http, wraw, sent, validates,
                   metrics, enqueued, receiver_dropped, shape, built, tx, debug_enabled>>

\* A worker that takes the next request before the metrics of the one it
\* holds are recorded.
WorkerRecv_early(w) ==
    /\ wpc[w] \in {"recv", "metrics"}
    /\ queue # <<>>
    /\ cur' = [cur EXCEPT ![w] = Head(queue)]
    /\ queue' = Tail(queue)
    /\ dequeued' = [dequeued EXCEPT ![Head(queue)] = @ + 1]
    /\ wpc' = [wpc EXCEPT ![w] = "eval"]
    /\ UNCHANGED <<evaluators, hpc, areq, resp_chan, http, wraw, sent, validates,
                   metrics, enqueued, receiver_dropped, shape, built, tx, debug_enabled>>

\* while let Some(req) = self.channel_rx.blocking_recv(), line 171
WorkerRecv(w) ==
    /\ wpc[w] = "recv"
    /\ queue # <<>>
    /\ cur' = [cur EXCEPT ![w] = Head(queue)]
    /\ queue' = Tail(queue)
    /\ dequeued' = [dequeued EXCEPT ![Head(queue)] = @ + 1]
    /\ wpc' = [wpc EXCEPT ![w] = "eval"]
    /\ UNCHANGED <<evaluators, hpc, areq, resp_chan, http, wraw, sent, validates,
                   metrics, enqueued, receiver_dropped, shape, built, tx, debug_enabled>>

\* Mutant: the "not known" signal is never sent.
Reply_skips_none(r, v) ==
    IF v = None
    THEN UNCHANGED <<sent, resp_chan>>
    ELSE /\ sent' = [sent EXCEPT ![r] = Append(@, v)]
         /\ resp_chan' = [resp_chan EXCEPT ![r] = oneshot_send(@, v)]

\* req.resp_chan.send(v) followed by `if res.is_err() { error!("receiver dropped") }`
Reply(r, v) ==
    /\ sent' = [sent EXCEPT ![r] = Append(@, v)]
    /\ resp_chan' = [resp_chan EXCEPT ![r] = oneshot_send(@, v)]

\* `res` of the send at line 224, read back from the channel: the Sender was
\* used and the value did not reach the Receiver.
res_is_err(ch) == ch.tx = "sent" /\ ch.val = None

\* if res.is_err() { error!("receiver dropped") }, lines 254-256, after the
\* metrics of the Ok arm.
LogIfErr(r) ==
    receiver_dropped' = [receiver_dropped EXCEPT ![r] =
                            IF res_is_err(resp_chan[r]) THEN @ + 1 ELSE @]

\* The same check in the arms that send and fall through to lines 254-256
\* at once (unknown policy, serialization failure): the send fails exactly
\* when the Receiver is gone before it.
LogIfDropped(r) ==
    receiver_dropped' = [receiver_dropped EXCEPT ![r] =
                            IF send_is_err(resp_chan[r]) THEN @ + 1 ELSE @]

\* The worker thread unwinds from a panic inside validate: the EvalRequest it
\* holds and its end of the queue are dropped; when it was the last receiver,
\* the queued EvalRequests are dropped with the queue.  cur[w] keeps naming
\* the request the worker died on.
WorkerPanic(w) ==
    LET pcs == [wpc EXCEPT ![w] = "dead"] IN
    /\ wpc' = pcs
    /\ cur' = cur
    /\ IF ReceiversGone(pcs)
       THEN /\ queue' = <<>>
            /\ resp_chan' = DropSenders(resp_chan, {cur[w]} \cup Range(queue))
       ELSE /\ queue' = queue
            /\ resp_chan' = DropSenders(resp_chan, {cur[w]})

\* Mutant: an unknown policy id falls back to some configured policy.
evaluators_get_fallback(evs, policy_id) ==
    IF policy_id \in DOMAIN evs
    THEN Some(evs[policy_id])
    ELSE Some(evs[CHOOSE id \in DOMAIN evs : TRUE])

\* self.evaluators.get_mut(&req.policy_id), line 175
evaluators_get(evs, policy_id) ==
    IF policy_id \in DOMAIN evs THEN Some(evs[policy_id]) ELSE None

\* Lines 175-200 and 242-253: the lookup of the policy, the serialization of
\* the request and the call of the evaluator.
\*   unknown policy        -> send(None)
\*   serialization failure -> send(Some(reject(policy_id, msg, 400)))
\*   otherwise             -> validate: returns a raw response, or panics
WorkerEval(w) ==
    /\ wpc[w] = "eval"
    /\ LET r == cur[w]
           req == unwrap(areq[r].request)
           policy_id == areq[r].policy_id
       IN  IF evaluators_get(evaluators[w], policy_id) = None
           THEN /\ Reply(r, None)
                /\ LogIfDropped(r)
                /\ wpc' = [wpc EXCEPT ![w] = "recv"]
                /\ cur' = [cur EXCEPT ![w] = 0]
                /\ UNCHANGED <<queue, wraw, validates>>
           ELSE IF is_some(req.ser_err)
           THEN /\ Reply(r, Some(reject(policy_id,
                                        SerializeErrorMessage(unwrap(req.ser_err)),
                                        BAD_REQUEST)))
                /\ LogIfDropped(r)
                /\ wpc' = [wpc EXCEPT ![w] = "recv"]
                /\ cur' = [cur EXCEPT ![w] = 0]
                /\ UNCHANGED <<queue, wraw, validates>>
           ELSE /\ validates' = [validates EXCEPT ![r] = @ + 1]
                /\ \/ \E raw \in RawResponses(req.uid) :
                         /\ wraw' = [wraw EXCEPT ![w] = Some(raw)]
                         /\ wpc' = [wpc EXCEPT ![w] = "reply"]
                         /\ UNCHANGED <<queue, cur, resp_chan>>
                   \/ /\ WorkerPanic(w)
                      /\ UNCHANGED wraw
                /\ UNCHANGED <<sent, receiver_dropped>>
    /\ UNCHANGED <<evaluators, hpc, areq, http, dequeued, metrics, enqueued, shape, built, tx, debug_enabled>>

\* Lines 195-221: the response the worker sends for a raw response.
final_validation_response(settings, policy_id, req_namespace, vanilla_validation_response) ==
    namespace_override(
        settings.always_accept_admission_reviews_on_namespace,
        req_namespace,
        validation_response_with_constraints(
            policy_id, settings.policy_mode, settings.allowed_to_mutate,
            vanilla_validation_response))

\* Lines 195-224: shape the raw response and send it; the result of the
\* send is looked at only after the metrics (WorkerMetrics).
WorkerReply(w) ==
    /\ wpc[w] = "reply"
    /\ LET r == cur[w]
           req == unwrap(areq[r].request)
           settings == unwrap(evaluators_get(evaluators[w], areq[r].policy_id))
       IN  /\ Reply(r, Some(final_validation_response(
                               settings, areq[r].policy_id, req.namespace, unwrap(wraw[w]))))
    /\ wpc' = [wpc EXCEPT ![w] = "metrics"]
    /\ UNCHANGED <<evaluators, queue, hpc, areq, http, cur, wraw, dequeued,
                   validates, metrics, enqueued, receiver_dropped, shape, built, tx, debug_enabled>>

\* Labels that describe what a Monitor-mode policy answers, not its verdict.
PolicyEvaluation_shaped(policy_name, policy_mode, req, vanilla_validation_response) ==
    [policy_name |-> policy_name,
     policy_mode |-> policy_mode,
     resource_namespace |-> req.namespace,
     accepted |-> IF policy_mode = Monitor THEN TRUE
                  ELSE vanilla_validation_response.allowed,
     mutated |-> IF policy_mode = Monitor THEN FALSE
                 ELSE is_some(vanilla_validation_response.patch),
     error_code |-> IF policy_mode # Monitor /\ is_some(vanilla_validation_response.status)
                    THEN unwrap(vanilla_validation_response.status).code
                    ELSE None]

\* metrics::PolicyEvaluation built at lines 225-234
\* (resource_kind and resource_request_operation are copied from the request
\* and are not modelled).
PolicyEvaluation(policy_name, policy_mode, req, vanilla_validation_response) ==
    [policy_name |-> policy_name,
     policy_mode |-> policy_mode,
     resource_namespace |-> req.namespace,
     accepted |-> vanilla_validation_response.allowed,
     mutated |-> is_some(vanilla_validation_response.patch),
     error_code |-> IF is_some(vanilla_validation_response.status)
                    THEN unwrap(vanilla_validation_response.status).code
                    ELSE None]

\* Mutant: no metrics are recorded when the send on the reply sink failed.
WorkerMetrics_skip_when_dropped(w) ==
    /\ wpc[w] = "metrics"
    /\ LET r == cur[w]
           settings == unwrap(evaluators_get(evaluators[w], areq[r].policy_id))
       IN  metrics' = [metrics EXCEPT ![r] =
              IF res_is_err(resp_chan[r])
              THEN @
              ELSE Append(@, PolicyEvaluation(areq[r].policy_id, settings.policy_mode,
                                              unwrap(areq[r].request), unwrap(wraw[w])))]
    /\ LogIfErr(cur[w])
    /\ wpc' = [wpc EXCEPT ![w] = "recv"]
    /\ cur' = [cur EXCEPT ![w] = 0]
    /\ wraw' = [wraw EXCEPT ![w] = None]
    /\ UNCHANGED <<evaluators, queue, hpc, areq, resp_chan, http, sent, dequeued,
                   validates, enqueued, shape, built, tx, debug_enabled>>

\* Lines 225-240 and 254-256: record_policy_latency and
\* add_policy_evaluation, then `if res.is_err() { error!("receiver dropped") }`,
\* and the loop goes back to blocking_recv.
WorkerMetrics(w) ==
    /\ wpc[w] = "metrics"
    /\ LET r == cur[w]
           settings == unwrap(evaluators_get(evaluators[w], areq[r].policy_id))
       IN  metrics' = [metrics EXCEPT ![r] =
              Append(@, PolicyEvaluation(areq[r].policy_id, settings.policy_mode,
                                         unwrap(areq[r].request), unwrap(wraw[w])))]
    /\ LogIfErr(cur[w])
    /\ wpc' = [wpc EXCEPT ![w] = "recv"]
    /\ cur' = [cur EXCEPT ![w] = 0]
    /\ wraw' = [wraw EXCEPT ![w] = None]
    /\ UNCHANGED <<evaluators, queue, hpc, areq, resp_chan, http, sent, dequeued,
                   validates, enqueued, shape, built, tx, debug_enabled>>

\* ------------------------------------------- the response shaper alone
ShapeStatuses ==
    {None} \cup { Some([message |-> m, code |-> c]) :
                    m \in {None, Some("bad")}, c \in {None, Some(INTERNAL_SERVER_ERROR)} }
ShapeRawResponses ==
    [uid : {"U1"}, allowed : BOOLEAN, patch : {None, Some("P")},
     patch_type : {None, Some(JsonPatchType)}, status : ShapeStatuses]
ShapeInputs ==
    [phase : {"in"},
     policy_id : {"psp-caps", "policy-id"},
     policy_mode : PolicyModes,
     allowed_to_mutate : BOOLEAN,
     accept_ns : {None} \cup { Some(n) : n \in Namespaces },
     req_namespace : {None} \cup { Some(n) : n \in Namespaces },
     raw : ShapeRawResponses]

ShapeInit ==
    /\ Started(<<>>)
    /\ shape \in ShapeInputs
    /\ built = BuiltIdle
    /\ debug_enabled = FALSE

\* Apply the mode projection (validation_response_with_constraints) and then
\* the namespace override to the drawn inputs, as Worker::run does.
ShapeApply ==
    /\ shape.phase = "in"
    /\ LET projected == validation_response_with_constraints(
                            shape.policy_id, shape.policy_mode, shape.allowed_to_mutate,
                            shape.raw)
       IN  shape' = [phase |-> "out",
                     policy_id |-> shape.policy_id,
                     policy_mode |-> shape.policy_mode,
                     allowed_to_mutate |-> shape.allowed_to_mutate,
                     accept_ns |-> shape.accept_ns,
                     req_namespace |-> shape.req_namespace,
                     raw |-> shape.raw,
                     projected |-> projected,
                     final |-> namespace_override(shape.accept_ns, shape.req_namespace,
                                                  projected)]
    /\ UNCHANGED <<evaluators, queue, hpc, areq, resp_chan, http, wpc, cur, wraw,
                   sent, dequeued, validates, metrics, enqueued, receiver_dropped,
                   built, tx, debug_enabled>>

NextShape == ShapeApply

SpecShape == ShapeInit /\ [][NextShape]_vars

\* ------------------------------------------------ construction of workers
\* The configurations and outcomes Worker::new is called with: one call per
\* worker of the pool, all with the same policies.
PolicyMaps == UNION { [S -> Policies] : S \in SUBSET NewPolicyIds }
NewInputs ==
    UNION { { [phase |-> "new", policies |-> p, ns |-> ns,
               engine_errors |-> ee, build_errors |-> be,
               res |-> [w \in Workers |-> None]] :
                 ns \in AcceptNamespaces,
                 ee \in [Workers -> {None} \cup { Some(e) : e \in EngineErrors }],
                 be \in [Workers -> [DOMAIN p -> {None} \cup { Some(e) : e \in BuildErrors }]] }
            : p \in PolicyMaps }

NewInit ==
    /\ Started(<<>>)
    /\ shape = ShapeIdle
    /\ built \in NewInputs
    /\ debug_enabled = FALSE

\* The pool calls Worker::new for worker w.
NewApply(w) ==
    /\ built.phase = "new"
    /\ built.res[w] = None
    /\ built' = [built EXCEPT !.res[w] =
          Some(Worker_new(built.policies, built.engine_errors[w], built.build_errors[w],
                          built.ns))]
    /\ UNCHANGED <<evaluators, queue, hpc, areq, resp_chan, http, wpc, cur, wraw, sent,
                   dequeued, validates, metrics, enqueued, receiver_dropped, shape, tx, debug_enabled>>

NextNew == \E w \in Workers : NewApply(w)

SpecNew == NewInit /\ [][NextNew]_vars

Next ==
    \/ \E r \in Reqs : HandlerStart(r)
    \/ \E r \in Reqs : HandlerSend(r)
    \/ \E r \in Reqs : HandlerAwait(r)
    \/ \E r \in Reqs : HandlerCancel(r)
    \/ \E w \in Workers : WorkerRecv(w)
    \/ \E w \in Workers : WorkerEval(w)
    \/ \E w \in Workers : WorkerReply(w)
    \/ \E w \in Workers : WorkerMetrics(w)
    \/ \E w \in Workers : WorkerStop(w)

Spec == Init /\ [][Next]_vars

\* ------------------------------------------------------------- progress
\* The dispatch under the assumptions of a running server: validate returns
\* (no panic), the pool keeps at least one worker, clients stay connected,
\* and every handler task and worker thread that can take a step is
\* eventually scheduled.
ValidateReturns(w) == WorkerEval(w) /\ wpc'[w] # "dead"
StopButLast(w) == WorkerStop(w) /\ ~ReceiversGone(wpc')

NextLive ==
    \/ \E r \in Reqs : HandlerStart(r)
    \/ \E r \in Reqs : HandlerSend(r)
    \/ \E r \in Reqs : HandlerAwait(r)
    \/ \E w \in Workers : WorkerRecv(w)
    \/ \E w \in Workers : ValidateReturns(w)
    \/ \E w \in Workers : WorkerReply(w)
    \/ \E w \in Workers : WorkerMetrics(w)
    \/ \E w \in Workers : StopButLast(w)

Fairness ==
    /\ \A r \in Reqs : WF_vars(HandlerSend(r)) /\ WF_vars(HandlerAwait(r))
    /\ \A w \in Workers :
          /\ WF_vars(WorkerRecv(w))
          /\ WF_vars(ValidateReturns(w))
          /\ WF_vars(WorkerReply(w))
          /\ WF_vars(WorkerMetrics(w))

SpecLive == Init /\ [][NextLive]_vars /\ Fairness

\* ------------------------------------------------------------- shutdown
\* Every handler owns a clone of the queue's Sender from its start to its
\* return (the `tx` argument of `validation`, api.rs:79), so the queue is
\* closed once the server dropped its Sender and no handler is running.
SendersGone == tx = "dropped" /\ \A r \in Reqs : hpc[r] \notin {"send", "await"}

\* The HTTP server shuts down: it accepts no more requests and its Sender is
\* dropped.
ServerShutdown ==
    /\ tx = "open"
    /\ tx' = "dropped"
    /\ UNCHANGED <<evaluators, queue, hpc, areq, resp_chan, http, wpc, cur, wraw, sent,
                   dequeued, validates, metrics, enqueued, receiver_dropped, shape, built, debug_enabled>>

\* blocking_recv returns None (line 171): the queue is closed and empty, the
\* while-let loop ends and Worker::run returns.
WorkerExit(w) ==
    /\ wpc[w] = "recv"
    /\ queue = <<>>
    /\ SendersGone
    /\ wpc' = [wpc EXCEPT ![w] = "exited"]
    /\ UNCHANGED <<evaluators, queue, hpc, areq, resp_chan, http, cur, wraw, sent,
                   dequeued, validates, metrics, enqueued, receiver_dropped, shape, built,
                   tx, debug_enabled>>

NextDrain ==
    \/ \E r \in Reqs : HandlerStart(r)
    \/ \E r \in Reqs : HandlerSend(r)
    \/ \E r \in Reqs : HandlerAwait(r)
    \/ \E r \in Reqs : HandlerCancel(r)
    \/ \E w \in Workers : WorkerRecv(w)
    \/ \E w \in Workers : WorkerEval(w)
    \/ \E w \in Workers : WorkerReply(w)
    \/ \E w \in Workers : WorkerMetrics(w)
    \/ \E w \in Workers : WorkerExit(w)
    \/ ServerShutdown

SpecDrain == Init /\ [][NextDrain]_vars

\* ======================================================== the claims
Count(q, r) == Cardinality({ i \in 1..Len(q) : q[i] = r })
\* validate panicked while some worker held request r
Panicked(r) == \E w \in Workers : cur[w] = r /\ wpc[w] = "dead"
\* request r names a policy that is in no worker's evaluator map
UnknownPolicy(r) ==
    /\ areq[r].request # None
    /\ \A w \in Workers : areq[r].policy_id \notin DOMAIN evaluators[w]
KnownPolicy(r) ==
    /\ areq[r].request # None
    /\ \A w \in Workers : areq[r].policy_id \in DOMAIN evaluators[w]
NotKnownReply == [code |-> 404, message |-> "requested policy not known", response |-> None]

\* C1: a worker sends on the reply sink of a dequeued request exactly once on
\* each of its paths (unknown policy, serialization failure, completed
\* evaluation): nothing is sent before the request is dequeued or while the
\* worker is still before its send, at most one value is ever sent, and once
\* the worker is past its send exactly one value was sent.  (A request whose
\* validate call panicked is on none of the three paths.)
C1_ExactlyOneSend ==
    \A r \in Reqs :
        /\ Len(sent[r]) <= 1
        /\ dequeued[r] = 0 => sent[r] = <<>>
        /\ dequeued[r] > 0 =>
              IF \E w \in Workers : cur[w] = r /\ wpc[w] \in {"eval", "reply"}
              THEN sent[r] = <<>>
              ELSE IF Panicked(r)
              THEN sent[r] = <<>>
              ELSE Len(sent[r]) = 1

\* Witness of C1: two dequeued requests were answered, one with the
\* "not known" signal and one after a completed evaluation.
C1_Witness ==
    \E r1, r2 \in Reqs :
        /\ sent[r1] = <<None>>
        /\ Len(sent[r2]) = 1 /\ is_some(sent[r2][1]) /\ Len(metrics[r2]) = 1
        /\ \A w \in Workers : cur[w] = 0

\* C2: with the workers draining the queue concurrently, every enqueued
\* request is in exactly one place: once in the queue, or dequeued exactly
\* once (so held, evaluated and measured by at most one worker); a request is
\* missing from both only when it was dropped with the queue because the last
\* receiver was gone.
C2_ExactlyOneWorker ==
    \A r \in Reqs :
        /\ dequeued[r] <= 1
        /\ Cardinality({ w \in Workers : cur[w] = r }) <= 1
        /\ validates[r] <= 1
        /\ Len(metrics[r]) <= 1
        /\ ~enqueued[r] => Count(queue, r) = 0 /\ dequeued[r] = 0
        /\ enqueued[r] =>
              \/ Count(queue, r) + dequeued[r] = 1
              \/ ReceiversGone(wpc) /\ Count(queue, r) = 0 /\ dequeued[r] = 0

\* Witness of C2: two workers hold two different requests at the same time.
C2_Witness ==
    \E w1, w2 \in Workers :
        /\ w1 # w2
        /\ cur[w1] # 0 /\ cur[w2] # 0 /\ cur[w1] # cur[w2]
        /\ wpc[w1] = "reply" /\ wpc[w2] = "reply"

\* C3: a request that names an unknown policy is answered with the
\* "not known" signal (None) and nothing else, no evaluator's validate runs
\* for it, no evaluation metric is recorded for it, and the handler that
\* receives the reply answers 404 "requested policy not known".
C3_UnknownPolicy ==
    \A r \in Reqs :
        UnknownPolicy(r) =>
            /\ \A i \in 1..Len(sent[r]) : sent[r][i] = None
            /\ validates[r] = 0
            /\ metrics[r] = <<>>
            /\ (dequeued[r] > 0 /\ \A w \in Workers : cur[w] # r) => sent[r] = <<None>>
            /\ (hpc[r] = "done" /\ sent[r] # <<>>) => http[r] = NotKnownReply

\* Witness of C3: a request for an unknown policy was answered 404.
C3_Witness ==
    \E r \in Reqs : UnknownPolicy(r) /\ hpc[r] = "done" /\ http[r] = NotKnownReply

\* C4: in Monitor mode, whatever the raw response and allowed_to_mutate, the
\* mode projection has allowed = true and patch, patch_type and status
\* cleared, and keeps the uid of the raw response.
C4_MonitorShape ==
    (shape.phase = "out" /\ shape.policy_mode = Monitor) =>
        /\ shape.projected.allowed = TRUE
        /\ shape.projected.patch = None
        /\ shape.projected.patch_type = None
        /\ shape.projected.status = None
        /\ shape.projected.uid = shape.raw.uid

\* Witness of C4: Monitor mode shaped a rejection that carried a patch and a
\* status.
C4_Witness ==
    /\ shape.phase = "out" /\ shape.policy_mode = Monitor
    /\ ~shape.raw.allowed /\ is_some(shape.raw.patch) /\ is_some(shape.raw.status)
    /\ shape.allowed_to_mutate

\* C5: in Protect mode with allowed_to_mutate = false, a raw response with a
\* patch becomes the canonical rejection: allowed = false, no patch, no
\* patch_type, the fixed message naming the policy, and no status code.
C5_DisallowedMutation ==
    (/\ shape.phase = "out" /\ shape.policy_mode = Protect
     /\ ~shape.allowed_to_mutate /\ is_some(shape.raw.patch)) =>
        shape.projected =
            [uid |-> shape.raw.uid,
             allowed |-> FALSE,
             patch |-> None,
             patch_type |-> None,
             status |-> Some([message |-> Some("Request rejected by policy " \o shape.policy_id
                                \o ". The policy attempted to mutate the request, but it is currently configured to not allow mutations."),
                              code |-> None])]

\* Witness of C5: the sandbox reported a status code together with a patch
\* and the shaper rejected the mutation.
C5_Witness ==
    /\ shape.phase = "out" /\ shape.policy_mode = Protect
    /\ ~shape.allowed_to_mutate /\ is_some(shape.raw.patch)
    /\ is_some(shape.raw.status) /\ is_some(unwrap(shape.raw.status).code)
    /\ shape.policy_id = "psp-caps"

\* C6: in Protect mode the mode projection is the identity whenever
\* allowed_to_mutate is true or the raw response has no patch.
C6_ProtectIdentity ==
    (/\ shape.phase = "out" /\ shape.policy_mode = Protect
     /\ (shape.allowed_to_mutate \/ shape.raw.patch = None)) =>
        shape.projected = shape.raw

\* Witness of C6: a patch passed through Protect mode with allowed_to_mutate.
C6_Witness ==
    /\ shape.phase = "out" /\ shape.policy_mode = Protect
    /\ shape.allowed_to_mutate /\ is_some(shape.raw.patch)
    /\ shape.projected = shape.raw

\* The settings, request namespace, raw response and sent response of the
\* evaluation worker w has just replied to.
Replied(w) == wpc[w] = "metrics"
SettingsOf(w) == evaluators[w][areq[cur[w]].policy_id]
AcceptNsOf(w) == SettingsOf(w).always_accept_admission_reviews_on_namespace
ReqNsOf(w) == unwrap(areq[cur[w]].request).namespace
RawOf(w) == unwrap(wraw[w])
SentOf(w) == unwrap(sent[cur[w]][1])
OverrideFires(w) == is_some(AcceptNsOf(w)) /\ ReqNsOf(w) = AcceptNsOf(w)

\* C7: when accept_ns is set and equals the namespace of the request, the
\* response the worker sends after a completed evaluation has allowed = true.
C7_OverrideAllows ==
    \A w \in Workers :
        (Replied(w) /\ OverrideFires(w)) => SentOf(w).allowed = TRUE

\* Witness of C7: the override turned a Protect-mode rejection into allowed.
C7_Witness ==
    \E w \in Workers :
        /\ Replied(w) /\ OverrideFires(w)
        /\ SettingsOf(w).policy_mode = Protect
        /\ ~RawOf(w).allowed

\* C8: when accept_ns is set but differs from the namespace of the request
\* (or the request has none), the response sent equals the one produced with
\* accept_ns unset.
C8_OverrideMismatch ==
    \A w \in Workers :
        (Replied(w) /\ is_some(AcceptNsOf(w)) /\ ReqNsOf(w) # AcceptNsOf(w)) =>
            SentOf(w) =
                final_validation_response(
                    [SettingsOf(w) EXCEPT !.always_accept_admission_reviews_on_namespace = None],
                    areq[cur[w]].policy_id, ReqNsOf(w), RawOf(w))

\* Witness of C8: two rejections were sent unchanged, one for a request
\* without namespace and one for a request of another namespace.
C8_Witness ==
    \E w1, w2 \in Workers :
        /\ Replied(w1) /\ Replied(w2)
        /\ is_some(AcceptNsOf(w1))
        /\ ReqNsOf(w1) = None
        /\ is_some(ReqNsOf(w2)) /\ ReqNsOf(w2) # AcceptNsOf(w2)
        /\ ~SentOf(w1).allowed /\ ~SentOf(w2).allowed

\* C9: a firing override changes only the allowed flag: patch, patch_type,
\* status and uid of the response sent are those of the mode projection.
C9_OverrideFrame ==
    \A w \in Workers :
        (Replied(w) /\ OverrideFires(w)) =>
            LET projected == validation_response_with_constraints(
                                areq[cur[w]].policy_id, SettingsOf(w).policy_mode,
                                SettingsOf(w).allowed_to_mutate, RawOf(w))
            IN  /\ SentOf(w).patch = projected.patch
                /\ SentOf(w).patch_type = projected.patch_type
                /\ SentOf(w).status = projected.status
                /\ SentOf(w).uid = projected.uid

\* Witness of C9: the override fired on the canonical disallowed-mutation
\* rejection, which is sent with its status and allowed = true.
C9_Witness ==
    \E w \in Workers :
        /\ Replied(w) /\ OverrideFires(w)
        /\ SettingsOf(w).policy_mode = Protect
        /\ ~SettingsOf(w).allowed_to_mutate
        /\ is_some(RawOf(w).patch)
        /\ SentOf(w).allowed
        /\ is_some(SentOf(w).status)

\* C10: every reply a worker sends for a known policy in Monitor mode has
\* allowed = true and no status, on every path of Worker::run.
C10_MonitorNeverErrors ==
    \A r \in Reqs :
        (KnownPolicy(r) /\
         \A w \in Workers : evaluators[w][areq[r].policy_id].policy_mode = Monitor) =>
            \A i \in 1..Len(sent[r]) :
                /\ is_some(sent[r][i])
                /\ unwrap(sent[r][i]).allowed = TRUE
                /\ unwrap(sent[r][i]).status = None

\* C11: when validate panics while a worker evaluates a request, the request
\* is answered with a rejection carrying code 500 and the worker stays alive
\* (no worker is ever dead).
C11_PanicRejected ==
    /\ \A w \in Workers : wpc[w] # "dead"
    /\ \A r \in Reqs :
          Panicked(r) =>
              /\ Len(sent[r]) = 1
              /\ is_some(sent[r][1])
              /\ ~unwrap(sent[r][1]).allowed
              /\ is_some(unwrap(sent[r][1]).status)
              /\ unwrap(unwrap(sent[r][1]).status).code = Some(500)

\* C12: when the handler dropped its half of the reply sink before the worker
\* replies, the worker still goes through every step of the evaluation (none
\* of its steps is blocked), sends once, the value is not delivered, the
\* metrics of a completed evaluation are recorded, the failed send is logged
\* once (after the metrics, by the time the worker lets go of the request),
\* and the worker is not stopped by the failed send.
C12_ReceiverDropped ==
    /\ \A w \in Workers :
          (cur[w] # 0 /\ hpc[cur[w]] = "cancelled") =>
              /\ wpc[w] = "eval" => ENABLED WorkerEval(w)
              /\ wpc[w] = "reply" => ENABLED WorkerReply(w)
              /\ wpc[w] = "metrics" => ENABLED WorkerMetrics(w)
    /\ \A r \in Reqs :
          /\ receiver_dropped[r] <= 1
          /\ (res_is_err(resp_chan[r]) /\ \A w \in Workers : cur[w] # r) =>
                receiver_dropped[r] = 1
          /\ receiver_dropped[r] = 1 =>
                /\ hpc[r] = "cancelled"
                /\ Len(sent[r]) = 1
                /\ res_is_err(resp_chan[r])
                /\ \A w \in Workers : cur[w] # r
                /\ validates[r] = 1 => Len(metrics[r]) = 1

\* Witness of C12: the send of a completed evaluation failed, its metrics are
\* recorded, and a worker is evaluating the next request.
C12_Witness ==
    \E r \in Reqs, w \in Workers :
        /\ receiver_dropped[r] = 1 /\ validates[r] = 1 /\ Len(metrics[r]) = 1
        /\ cur[w] # 0 /\ cur[w] # r /\ wpc[w] = "eval"
        /\ dequeued[r] = 1 /\ dequeued[cur[w]] = 1

\* request r names a configured policy and its serialization to JSON fails
SerFails(r) == KnownPolicy(r) /\ is_some(unwrap(areq[r].request).ser_err)
SerializePrefix == "Failed to serialize AdmissionReview:"

\* C13: when serializing the admission request fails for a known policy, the
\* worker replies Some(rejection) with allowed = false, status.code = 400 and
\* a message starting "Failed to serialize AdmissionReview:", the evaluator is
\* not invoked, and the worker releases the request and goes on.
C13_SerializeFailure ==
    \A r \in Reqs :
        SerFails(r) =>
            /\ validates[r] = 0
            /\ \A i \in 1..Len(sent[r]) :
                  /\ is_some(sent[r][i])
                  /\ ~unwrap(sent[r][i]).allowed
                  /\ is_some(unwrap(sent[r][i]).status)
                  /\ unwrap(unwrap(sent[r][i]).status).code = Some(400)
                  /\ is_some(unwrap(unwrap(sent[r][i]).status).message)
                  /\ SubSeq(unwrap(unwrap(unwrap(sent[r][i]).status).message),
                            1, Len(SerializePrefix)) = SerializePrefix
            /\ \A w \in Workers : cur[w] = r => wpc[w] = "eval" /\ ENABLED WorkerEval(w)
            /\ (dequeued[r] = 1 /\ \A w \in Workers : cur[w] # r) => Len(sent[r]) = 1

\* Witness of C13: the synthetic rejection reached the client as a 200 reply
\* and the worker that sent it holds no request.
C13_Witness ==
    \E r \in Reqs :
        /\ SerFails(r) /\ Len(sent[r]) = 1
        /\ hpc[r] = "done" /\ http[r].code = 200
        /\ ~unwrap(http[r].response).allowed
        /\ \A w \in Workers : cur[w] = 0 /\ wpc[w] = "recv"

\* C14: every dequeued request that named a known policy counts as an
\* evaluation, a request whose serialization failed included: once the worker
\* has released the request, one PolicyEvaluation was added for it, so the
\* policy_evaluations_total counter equals the number of such requests.
C14_SerializeFailureCounted ==
    \A r \in Reqs :
        (KnownPolicy(r) /\ dequeued[r] = 1 /\ \A w \in Workers : cur[w] # r) =>
            Len(metrics[r]) = 1

\* C15: every 200 reply of POST /validate/{policy_id} carries a response
\* whose uid is the uid of the admission request that was submitted.
C15_UidEchoed ==
    \A r \in Reqs :
        http[r].code = 200 =>
            /\ is_some(http[r].response)
            /\ unwrap(http[r].response).uid = unwrap(areq[r].request).uid

\* C16: the queue never holds more than QueueCap requests; a handler whose
\* send finds the queue full (receivers alive) can neither complete the send
\* nor fail: it stays at the send, unanswered, with its request and reply
\* sink intact, and can send exactly when a slot is free; every request
\* occupies at most one slot and an in-flight request owns one open sink.
InFlight(r) == hpc[r] \in {"send", "await"}
C16_Backpressure ==
    /\ Len(queue) <= QueueCap
    /\ \A r \in Reqs :
          /\ Count(queue, r) <= 1
          /\ Count(queue, r) = 1 => (enqueued[r] /\ hpc[r] \in {"await", "cancelled"})
          /\ InFlight(r) => (resp_chan[r].rx = "open" /\ resp_chan[r].tx # "none")
          /\ (hpc[r] = "send" /\ ~ReceiversGone(wpc)) =>
                /\ (ENABLED HandlerSend(r)) <=> (Len(queue) < QueueCap)
                /\ http[r] = NoHttp
                /\ ~enqueued[r]
                /\ resp_chan[r] = [tx |-> "open", rx |-> "open", val |-> None]
          /\ (hpc[r] = "done" /\ http[r].message =
                  "error while sending request from API to Worker pool")
                => ReceiversGone(wpc)
C16_Witness ==
    \E r \in Reqs :
        /\ hpc[r] = "send"
        /\ Len(queue) = QueueCap
        /\ ~ReceiversGone(wpc)
        /\ \E q \in Reqs : q # r /\ Count(queue, q) = 1 /\ hpc[q] = "await"

\* C17: once every receiving end of the queue is gone, a handler at its send
\* can always complete it (the send fails, it does not hang), nothing sits in
\* the queue, a handler waits on its reply sink only after a successful
\* enqueue, and a handler that finished without enqueuing an existing request
\* answered 500 "error while sending request from API to Worker pool".
SendErrorReply ==
    ServerError(INTERNAL_SERVER_ERROR, "error while sending request from API to Worker pool")
C17_ClosedPoolSendFails ==
    /\ ReceiversGone(wpc) => queue = <<>>
    /\ \A r \in Reqs :
          /\ (hpc[r] = "send" /\ ReceiversGone(wpc)) => ENABLED HandlerSend(r)
          /\ hpc[r] = "await" => enqueued[r]
          /\ (hpc[r] = "done" /\ is_some(areq[r].request) /\ ~enqueued[r]) =>
                /\ http[r] = SendErrorReply
                /\ ReceiversGone(wpc)
                /\ resp_chan[r].rx = "dropped"
                /\ sent[r] = <<>> /\ dequeued[r] = 0
          /\ (enqueued[r] /\ hpc[r] = "done") => http[r] # SendErrorReply
C17_Witness ==
    \E r \in Reqs :
        /\ hpc[r] = "done"
        /\ http[r] = SendErrorReply
        /\ is_some(areq[r].request)
        /\ ReceiversGone(wpc)

\* C18: a handler waiting on a reply sink whose Sender was dropped without a
\* send is not blocked (its await completes), and a handler that enqueued its
\* request and finished without any reply having been sent answered 500
\* "broken channel"; that reply is given in no other case.
BrokenChannelReply == ServerError(INTERNAL_SERVER_ERROR, "broken channel")
SinkClosedUnsent(r) == enqueued[r] /\ resp_chan[r].tx = "dropped" /\ sent[r] = <<>>
C18_BrokenChannel ==
    \A r \in Reqs :
        /\ (hpc[r] = "await" /\ SinkClosedUnsent(r)) => ENABLED HandlerAwait(r)
        /\ (hpc[r] = "done" /\ SinkClosedUnsent(r)) => http[r] = BrokenChannelReply
        /\ (hpc[r] = "done" /\ enqueued[r] /\ sent[r] = <<>>) => SinkClosedUnsent(r)
        /\ http[r] = BrokenChannelReply => SinkClosedUnsent(r)
C18_Witness ==
    \E r \in Reqs :
        /\ hpc[r] = "done"
        /\ http[r] = BrokenChannelReply
        /\ Panicked(r)

\* C19: an AdmissionReview without a request is answered 400 "No Request
\* object defined inside AdmissionReview object" by the handler itself: no
\* reply sink or EvalRequest is made, nothing is enqueued, and no worker
\* dequeues, evaluates or replies for it.
MissingRequestReply ==
    ServerError(BAD_REQUEST, "No Request object defined inside AdmissionReview object")
C19_MissingRequest ==
    \A r \in Reqs :
        (hpc[r] # "idle" /\ areq[r].request = None) =>
            /\ hpc[r] = "done"
            /\ http[r] = MissingRequestReply
            /\ resp_chan[r] = NoChan
            /\ ~enqueued[r] /\ Count(queue, r) = 0
            /\ dequeued[r] = 0 /\ validates[r] = 0
            /\ sent[r] = <<>> /\ metrics[r] = <<>>
            /\ \A w \in Workers : cur[w] # r
C19_Witness ==
    \E r \in Reqs :
        /\ hpc[r] = "done"
        /\ areq[r].request = None
        /\ http[r] = MissingRequestReply
        /\ \E w \in Workers : wpc[w] = "recv" /\ cur[w] = 0

\* C20: Worker::new returns Ok exactly when the engine and every configured
\* policy's evaluator were created; the evaluators of an Ok worker are keyed
\* by exactly the configured ids (so the lookup of a configured id succeeds
\* in every worker, and all workers hold the same settings); when policies
\* fail the error map is keyed by exactly the failing ids, and when the
\* engine fails it has the single key "*".
Constructed(w) == built.phase = "new" /\ is_some(built.res[w])
ResOf(w) == unwrap(built.res[w])
C20_WorkerNew ==
    \A w \in Workers :
        Constructed(w) =>
            LET res == ResOf(w)
                failing == Failing(built.build_errors[w])
                engine_error == built.engine_errors[w]
            IN  /\ res.ok <=> (engine_error = None /\ failing = {})
                /\ res.ok =>
                      /\ DOMAIN res.evaluators = DOMAIN built.policies
                      /\ \A id \in DOMAIN built.policies :
                            is_some(evaluators_get(res.evaluators, id))
                      /\ \A v \in Workers :
                            (Constructed(v) /\ ResOf(v).ok) =>
                                \A id \in DOMAIN built.policies :
                                    ResOf(v).evaluators[id] = res.evaluators[id]
                /\ (engine_error = None /\ failing # {}) =>
                      /\ DOMAIN res.errors = failing
                      /\ \A id \in failing :
                            res.errors[id] =
                                BuildErrorMessage(id, unwrap(built.build_errors[w][id]))
                /\ is_some(engine_error) =>
                      /\ DOMAIN res.errors = {"*"}
                      /\ res.errors["*"] = EngineErrorMessage(unwrap(engine_error))
C20_Witness ==
    \E w, v \in Workers :
        /\ w # v
        /\ Constructed(w) /\ ~ResOf(w).ok
        /\ built.engine_errors[w] = None
        /\ Cardinality(DOMAIN ResOf(w).errors) = 2
        /\ Constructed(v) /\ ResOf(v).ok
        /\ Cardinality(DOMAIN ResOf(v).evaluators) = 2

\* C21: a worker works on one request at a time.  A worker between two
\* requests holds nothing; a request is held by at most one worker, so an
\* evaluator instance (worker, policy id) serves at most one validate at a
\* time and each request is validated at most once; and a request a worker
\* has let go of (the worker went back to receive, or holds the next one) has
\* its reply sent and, when it was validated, its metrics recorded.
Holders(r) == { w \in Workers : cur[w] = r }
InValidate(w, id) == wpc[w] = "eval" /\ cur[w] # 0 /\ areq[cur[w]].policy_id = id
C21_Sequential ==
    /\ \A w \in Workers :
          /\ wpc[w] \in {"recv", "stopped"} => (cur[w] = 0 /\ wraw[w] = None)
          /\ wpc[w] \in {"eval", "reply", "metrics"} => cur[w] \in Reqs
          /\ wpc[w] \in {"eval", "reply"} =>
                (sent[cur[w]] = <<>> /\ metrics[cur[w]] = <<>>)
          /\ wpc[w] = "metrics" =>
                (Len(sent[cur[w]]) = 1 /\ metrics[cur[w]] = <<>>)
          /\ \A id \in RequestPolicyIds :
                Cardinality({ r \in Reqs : cur[w] = r /\ InValidate(w, id) }) <= 1
    /\ \A r \in Reqs :
          /\ Cardinality(Holders(r)) <= 1
          /\ validates[r] <= 1
          /\ (dequeued[r] >= 1 /\ Holders(r) = {}) =>
                /\ Len(sent[r]) = 1
                /\ validates[r] = 1 => Len(metrics[r]) = 1
C21_Witness ==
    \E w \in Workers, r, q \in Reqs :
        /\ r # q
        /\ cur[w] = q /\ wpc[w] = "eval"
        /\ validates[r] = 1 /\ Len(sent[r]) = 1 /\ Len(metrics[r]) = 1
        /\ \A v \in Workers \ {w} : wpc[v] = "recv"

\* C22: whenever a worker records the metrics of an evaluation, the reply
\* has already been sent on the sink (and is not touched again), and the
\* labels are those of the raw verdict: accepted = raw.allowed, mutated =
\* raw.patch is set, error_code = raw.status.code (None without a status),
\* whatever the response that was sent says.
RawErrorCode(raw) == IF is_some(raw.status) THEN unwrap(raw.status).code ELSE None
RecordsMetrics(w) == wpc[w] = "metrics" /\ wpc'[w] # "metrics"
C22_MetricsRawVerdict ==
    [][\A w \in Workers :
          RecordsMetrics(w) =>
              LET r == cur[w]
                  raw == unwrap(wraw[w])
              IN  /\ Len(sent[r]) = 1 /\ sent'[r] = sent[r]
                  /\ metrics[r] = <<>> /\ Len(metrics'[r]) = 1
                  /\ metrics'[r][1].accepted = raw.allowed
                  /\ metrics'[r][1].mutated = is_some(raw.patch)
                  /\ metrics'[r][1].error_code = RawErrorCode(raw)
                  /\ metrics'[r][1].policy_name = areq[r].policy_id
                  /\ metrics'[r][1].policy_mode = SettingsOf(w).policy_mode]_vars
C22_Witness ==
    \E r \in Reqs :
        /\ Len(sent[r]) = 1 /\ is_some(sent[r][1])
        /\ Len(metrics[r]) = 1
        /\ metrics[r][1].accepted = FALSE
        /\ metrics[r][1].mutated = TRUE
        /\ is_some(metrics[r][1].error_code)
        /\ unwrap(sent[r][1]).allowed = TRUE
        /\ unwrap(sent[r][1]).patch = None
        /\ unwrap(sent[r][1]).status = None

\* C23: under SpecLive (validate returns, a worker stays alive, fair
\* scheduling) every request that arrived with a request field is eventually
\* answered with 200, 404 or 500.
Answered(r) == hpc[r] = "done" /\ http[r].code \in {OK, NOT_FOUND, INTERNAL_SERVER_ERROR}
C23_Liveness ==
    \A r \in Reqs : (hpc[r] # "idle" /\ is_some(areq[r].request)) ~> Answered(r)
\* The same for the handlers that got past their debug event: one that is
\* sending its EvalRequest or waiting for the reply eventually answers.
C23_LivenessOnceSending ==
    \A r \in Reqs : (hpc[r] \in {"send", "await"}) ~> Answered(r)

\* C24 as stated: the shaped reply has a patch or a patch_type only when the
\* mode is Protect, allowed_to_mutate is true and the raw response carried
\* that patch; in every other case both patch and patch_type are None.
MutationPermitted ==
    shape.policy_mode = Protect /\ shape.allowed_to_mutate /\ is_some(shape.raw.patch)
C24_PatchOnlyWhenPermitted ==
    shape.phase = "out" =>
        IF MutationPermitted
        THEN shape.final.patch = shape.raw.patch
        ELSE shape.final.patch = None /\ shape.final.patch_type = None

\* C24, amended: the shaped reply has a patch only when the mode is Protect,
\* allowed_to_mutate is true and the raw response carried that patch, and
\* then patch and patch_type are the raw ones; otherwise patch = None.  The
\* patch_type is None in Monitor mode and whenever a patch was refused; in
\* Protect mode a raw response without a patch is passed on as it is, its
\* patch_type included, so patch_type = None holds there only when the raw
\* response has no patch_type without a patch.  The namespace override
\* changes neither field.
RawPatchTypeNeedsPatch == is_some(shape.raw.patch_type) => is_some(shape.raw.patch)
C24_PatchOnlyWhenPermittedAmended ==
    shape.phase = "out" =>
        /\ shape.final.patch = shape.projected.patch
        /\ shape.final.patch_type = shape.projected.patch_type
        /\ IF MutationPermitted
           THEN /\ shape.final.patch = shape.raw.patch
                /\ shape.final.patch_type = shape.raw.patch_type
           ELSE /\ shape.final.patch = None
                /\ (shape.policy_mode = Monitor \/ is_some(shape.raw.patch)) =>
                       shape.final.patch_type = None
                /\ (shape.policy_mode = Protect /\ shape.raw.patch = None) =>
                       shape.final.patch_type = shape.raw.patch_type
                /\ RawPatchTypeNeedsPatch => shape.final.patch_type = None
C24_Witness ==
    /\ shape.phase = "out"
    /\ shape.policy_mode = Protect /\ ~shape.allowed_to_mutate
    /\ shape.raw.patch = None /\ is_some(shape.raw.patch_type)
    /\ shape.accept_ns = shape.req_namespace /\ is_some(shape.accept_ns)
    /\ shape.final.patch = None /\ is_some(shape.final.patch_type)

\* C25: a worker that has left Worker::run (by returning or by unwinding)
\* left it with the queue closed and empty, and once every worker has left,
\* every request that was enqueued has been dequeued and has had its reply
\* sent.
Left(w) == wpc[w] \in {"exited", "dead"}
C25_ExitOnlyWhenClosed ==
    /\ \A w \in Workers : Left(w) => (SendersGone /\ queue = <<>>)
    /\ (\A w \in Workers : Left(w)) =>
          \A r \in Reqs : enqueued[r] => (dequeued[r] = 1 /\ Len(sent[r]) = 1)
\* The same with the workers that returned from run only.
C25_ReturnOnlyWhenClosed ==
    /\ \A w \in Workers : wpc[w] = "exited" => (SendersGone /\ queue = <<>>)
    /\ (\A w \in Workers : wpc[w] = "exited") =>
          \A r \in Reqs : enqueued[r] => (dequeued[r] = 1 /\ Len(sent[r]) = 1)

====
